---- MODULE Spec2Model ----
(***************************************************************************)
(* Orbit camera of rsodr (src/main.rs): the CameraOrbit component, the     *)
(* camera_input and camera_orbit systems chained in the Update schedule,   *)
(* and the engine's per-frame input feed (MouseWheel and CursorMoved event *)
(* queues, ButtonInput<MouseButton>).                                      *)
(*                                                                         *)
(* Number representation (f32 in the source, exact arithmetic here):       *)
(*   angles      integers, micro-radians (0.005 rad = 5000)                *)
(*   pan, Vec3   integers, tenths of a world unit (delta * 0.1 = delta)    *)
(*   cursor      integers, pixels                                          *)
(*   wheel y     integers, lines                                           *)
(*   distance    reduced fractions [n, d] with d > 0                       *)
(***************************************************************************)
EXTENDS Integers, Sequences, FiniteSets, TLC

VARIABLES orbit, last_cursor_position, mouse_wheel, cursor_moved,
          mouse_buttons, transform, pc, frame

vars == <<orbit, last_cursor_position, mouse_wheel, cursor_moved,
          mouse_buttons, transform, pc, frame>>

(* ------------------------------ bounds -------------------------------- *)
MaxFrames == 2
MaxEvents == 2

WheelDeltas == {-10, 0, 5, 20}
CursorPositions == {[x |-> 0, y |-> 0], [x |-> 100, y |-> 0], [x |-> 0, y |-> 400]}
Buttons == {"Left", "Middle"}

(* --------------------------- program constants ------------------------ *)
HalfPi == 1570796
QuarterPi == 785398
MinDistance == 5
MaxDistance == 500
InitialDistance == 200
RotateSpeed == 5000
ZoomTenths == 10

(* ------------------------------ arithmetic ---------------------------- *)
Abs(a) == IF a < 0 THEN -a ELSE a

RECURSIVE Gcd(_, _)
Gcd(a, b) == IF b = 0 THEN a ELSE Gcd(b, a % b)

\* the fraction n/d in lowest terms, d > 0
Rat(n, d) ==
    LET g == Gcd(Abs(n), Abs(d))
        s == IF d < 0 THEN -1 ELSE 1
    IN  [n |-> s * (n \div g), d |-> s * (d \div g)]

\* f32::clamp(min, max) on a fraction, integer limits
ClampRat(r, lo, hi) ==
    IF r.n < lo * r.d THEN Rat(lo, 1)
    ELSE IF r.n > hi * r.d THEN Rat(hi, 1)
    ELSE r

\* f32::clamp(min, max) on an integer
Clamp(v, lo, hi) == IF v < lo THEN lo ELSE IF v > hi THEN hi ELSE v

LastOf(s) == s[Len(s)]

RECURSIVE SumSeq(_)
SumSeq(s) == IF s = <<>> THEN 0 ELSE Head(s) + SumSeq(Tail(s))

None == <<>>
Some(v) == <<v>>

(* ------------------------------ camera_input -------------------------- *)
\* variant: the factor without its leading 1.0
ZoomFactorWithoutOne(y) == Rat(-y, ZoomTenths)

\* zoom_factor = 1.0 + event.y * -0.1, as a fraction
ZoomFactor(y) == Rat(ZoomTenths - y, ZoomTenths)

\* variant: the product without the clamp
ZoomStepUnclamped(distance, y) ==
    Rat(distance.n * ZoomFactor(y).n, distance.d * ZoomFactor(y).d)

\* orbit.distance = (orbit.distance * zoom_factor).clamp(5.0, 500.0)
ZoomStep(distance, y) ==
    ClampRat(Rat(distance.n * ZoomFactor(y).n, distance.d * ZoomFactor(y).d),
             MinDistance, MaxDistance)

\* variant: one zoom step with the sum of the tick's wheel deltas
ZoomLoopSummed(distance, events) == ZoomStep(distance, SumSeq(events))

\* for event in mouse_wheel.read() { ... }
RECURSIVE ZoomLoop(_, _)
ZoomLoop(distance, events) ==
    IF events = <<>> THEN distance
    ELSE ZoomLoop(ZoomStep(distance, Head(events)), Tail(events))

\* variant: the first move event of the tick is kept
CursorLoopFirst(current, events) ==
    IF events = <<>> THEN current ELSE Some(Head(events))

\* for event in cursor_moved.read() { current_cursor_position = Some(event.position) }
RECURSIVE CursorLoop(_, _)
CursorLoop(current, events) ==
    IF events = <<>> THEN current
    ELSE CursorLoop(Some(Head(events)), Tail(events))

\* let delta = current_pos - last_pos, where the pattern binds current_pos to
\* *last_cursor_position and last_pos to current_cursor_position
Delta(last, current) ==
    LET current_pos == last[1]
        last_pos == current[1]
    IN  [x |-> current_pos.x - last_pos.x, y |-> current_pos.y - last_pos.y]

\* variant: pan without the button test
PanStepAlways(o, delta, buttons) ==
    [o EXCEPT !.pan = [x |-> o.pan.x + delta.x, y |-> o.pan.y + delta.y]]

\* if mouse_buttons.pressed(MouseButton::Middle) { orbit.pan += delta * 0.1 }
PanStep(o, delta, buttons) ==
    IF "Middle" \in buttons
    THEN [o EXCEPT !.pan = [x |-> o.pan.x + delta.x, y |-> o.pan.y + delta.y]]
    ELSE o

\* variant: the sum without the clamp
ElevationStepUnclamped(elevation, dy) == elevation + dy * RotateSpeed

\* (orbit.elevation + delta.y * 0.005).clamp(-PI / 2.0, PI / 2.0)
ElevationStep(elevation, dy) == Clamp(elevation + dy * RotateSpeed, -HalfPi, HalfPi)

\* if mouse_buttons.pressed(MouseButton::Left) { ... }
RotateStep(o, delta, buttons) ==
    IF "Left" \in buttons
    THEN [o EXCEPT !.azimuth = o.azimuth - delta.x * RotateSpeed,
                   !.elevation = ElevationStep(o.elevation, delta.y)]
    ELSE o

\* if let (Some(..), Some(..)) = (*last_cursor_position, current_cursor_position)
DragStep(o, last, current, buttons) ==
    IF last # None /\ current # None
    THEN RotateStep(PanStep(o, Delta(last, current), buttons),
                    Delta(last, current), buttons)
    ELSE o

\* variant: the stored position survives a tick without a move event
StoreLastSticky(last, current) == IF current = None THEN last ELSE current

\* *last_cursor_position = current_cursor_position
StoreLast(last, current) == current

\* the CameraOrbit component after one run of camera_input
InputOrbit(o, last, wheel, moved, buttons) ==
    LET zoomed == [o EXCEPT !.distance = ZoomLoop(o.distance, wheel)]
    IN  DragStep(zoomed, last, CursorLoop(None, moved), buttons)

\* the Local<Option<Vec2>> after one run of camera_input
InputLast(last, moved) == StoreLast(last, CursorLoop(None, moved))

(* ------------------------------ camera_orbit -------------------------- *)
\* Transform::from_translation(Vec3::new(orbit.pan.x, orbit.pan.y, 0.0)).translation
PanTranslation(pan) == [x |-> pan.x, y |-> pan.y, z |-> 0]

Vec3Add(a, b) == [x |-> a.x + b.x, y |-> a.y + b.y, z |-> a.z + b.z]

\* The translation is kept as the term
\*   (rotY(azimuth) * rotX(elevation)) * (0, 0, length) + plus
\* with the rotated part uninterpreted and the added vectors summed.
DeriveTransform(o) ==
    [translation |->
        [rotated |-> [azimuth |-> o.azimuth, elevation |-> o.elevation,
                      length |-> o.distance],
         plus |-> Vec3Add(o.center, PanTranslation(o.pan))],
     looking_at |-> o.center]

(* ------------------------------ schedule ------------------------------ *)
\* variant: the two systems in the other order
ScheduleReversed == <<"camera_orbit", "camera_input">>

\* .add_systems(Update, (camera_input, camera_orbit).chain())
Schedule == <<"camera_input", "camera_orbit">>

Advance ==
    IF pc = Len(Schedule)
    THEN pc' = 1 /\ frame' = frame + 1
    ELSE pc' = pc + 1 /\ frame' = frame

(* ------------------------------ initial state ------------------------- *)
Vec3Zero == [x |-> 0, y |-> 0, z |-> 0]

Init ==
    /\ orbit = [center |-> Vec3Zero,
                distance |-> Rat(InitialDistance, 1),
                azimuth |-> -QuarterPi,
                elevation |-> QuarterPi,
                pan |-> [x |-> 0, y |-> 0]]
    /\ last_cursor_position = None
    /\ mouse_wheel = <<>>
    /\ cursor_moved = <<>>
    /\ mouse_buttons = {}
    /\ transform = [translation |->
                       [rotated |-> [azimuth |-> 0, elevation |-> 0, length |-> Rat(0, 1)],
                        plus |-> [x |-> -1000, y |-> 1000, z |-> 1500]],
                    looking_at |-> Vec3Zero]
    /\ pc = 1
    /\ frame = 0

(* ------------------------------ actions ------------------------------- *)
\* the engine feeds the frame's input before the Update schedule starts
Feeding == pc = 1 /\ frame < MaxFrames

WheelEvent(y) ==
    /\ Feeding
    /\ Len(mouse_wheel) + Len(cursor_moved) < MaxEvents
    /\ mouse_wheel' = Append(mouse_wheel, y)
    /\ UNCHANGED <<orbit, last_cursor_position, cursor_moved, mouse_buttons,
                   transform, pc, frame>>

CursorMovedEvent(p) ==
    /\ Feeding
    /\ Len(mouse_wheel) + Len(cursor_moved) < MaxEvents
    /\ cursor_moved' = Append(cursor_moved, p)
    /\ UNCHANGED <<orbit, last_cursor_position, mouse_wheel, mouse_buttons,
                   transform, pc, frame>>

ButtonPress(b) ==
    /\ Feeding
    /\ b \notin mouse_buttons
    /\ mouse_buttons' = mouse_buttons \cup {b}
    /\ UNCHANGED <<orbit, last_cursor_position, mouse_wheel, cursor_moved,
                   transform, pc, frame>>

ButtonRelease(b) ==
    /\ Feeding
    /\ b \in mouse_buttons
    /\ mouse_buttons' = mouse_buttons \ {b}
    /\ UNCHANGED <<orbit, last_cursor_position, mouse_wheel, cursor_moved,
                   transform, pc, frame>>

CameraInput ==
    /\ frame < MaxFrames
    /\ Schedule[pc] = "camera_input"
    /\ orbit' = InputOrbit(orbit, last_cursor_position, mouse_wheel, cursor_moved,
                           mouse_buttons)
    /\ last_cursor_position' = InputLast(last_cursor_position, cursor_moved)
    /\ mouse_wheel' = <<>>
    /\ cursor_moved' = <<>>
    /\ Advance
    /\ UNCHANGED <<mouse_buttons, transform>>

CameraOrbit ==
    /\ frame < MaxFrames
    /\ Schedule[pc] = "camera_orbit"
    /\ transform' = DeriveTransform(orbit)
    /\ Advance
    /\ UNCHANGED <<orbit, last_cursor_position, mouse_wheel, cursor_moved,
                   mouse_buttons>>

Next ==
    \/ \E y \in WheelDeltas : WheelEvent(y)
    \/ \E p \in CursorPositions : CursorMovedEvent(p)
    \/ \E b \in Buttons : ButtonPress(b)
    \/ \E b \in Buttons : ButtonRelease(b)
    \/ CameraInput
    \/ CameraOrbit

Spec == Init /\ [][Next]_vars

(* ====================================================================== *)
(* Properties                                                             *)
(* ====================================================================== *)
\* apply_zoom of the specification: distance * (1 - 0.1 * y), clamped to [5, 500]
ApplyZoom(distance, y) ==
    LET r == Rat(distance.n * (10 - y), distance.d * 10)
    IN  IF r.n < 5 * r.d THEN Rat(5, 1)
        ELSE IF r.n > 500 * r.d THEN Rat(500, 1)
        ELSE r

\* apply_zoom once per event, in arrival order
RECURSIVE ZoomEach(_, _)
ZoomEach(distance, events) ==
    IF events = <<>> THEN distance
    ELSE ApplyZoom(ZoomEach(distance, SubSeq(events, 1, Len(events) - 1)), LastOf(events))

\* a tick in which camera_input sees both a previous and a current position
HasDelta == last_cursor_position # None /\ cursor_moved # <<>>

\* c - p of that tick: current position minus stored previous position
DragDelta ==
    [x |-> LastOf(cursor_moved).x - last_cursor_position[1].x,
     y |-> LastOf(cursor_moved).y - last_cursor_position[1].y]

AnglesAndPanUnchanged ==
    /\ orbit'.azimuth = orbit.azimuth
    /\ orbit'.elevation = orbit.elevation
    /\ orbit'.pan = orbit.pan

\* camera_input has run in the current frame and camera_orbit has not yet
AfterInput == Schedule[pc] = "camera_orbit"

(* ---------------------------------------------------------------------- *)
\* C1: in a tick with the primary button held, a previous position p and a
\* current position c, camera_input sets azimuth' = azimuth - 0.005 * (c - p).x
\* and elevation' = clamp(elevation + 0.005 * (c - p).y, -pi/2, pi/2).
C1_PrimaryDragUsesCurrentMinusPrevious ==
    [][(CameraInput /\ HasDelta /\ "Left" \in mouse_buttons) =>
        /\ orbit'.azimuth = orbit.azimuth - 5000 * DragDelta.x
        /\ orbit'.elevation =
              Clamp(orbit.elevation + 5000 * DragDelta.y, -1570796, 1570796)]_vars

(* ---------------------------------------------------------------------- *)
\* C2 (as stated): the wheel events of one tick are folded by summation, the
\* distance after the tick is clamp(distance * (1 - 0.1 * (y1 + ... + yn)), 5, 500).
C2_WheelFoldedBySummation ==
    [][CameraInput =>
        orbit'.distance = ApplyZoom(orbit.distance, SumSeq(mouse_wheel))]_vars

\* C2 (amended): the wheel events of one tick are applied one after another in
\* arrival order, clamping after each; with at most one wheel event in the tick
\* the result is that of one apply_zoom call with the aggregated delta.
C2_WheelAppliedInOrder ==
    [][CameraInput =>
        /\ orbit'.distance = ZoomEach(orbit.distance, mouse_wheel)
        /\ (Len(mouse_wheel) <= 1 =>
              orbit'.distance = ApplyZoom(orbit.distance, SumSeq(mouse_wheel)))]_vars

\* the first tick delivered the wheel events 5, 5: 200 -> 100 -> 50, where the
\* aggregated delta 10 gives factor 0 and distance 5
C2_Witness == frame = 0 /\ AfterInput /\ orbit.distance = Rat(50, 1)

(* ---------------------------------------------------------------------- *)
\* C3: 5 <= distance <= 500 in every reachable state.
C3_DistanceClamped ==
    /\ 5 * orbit.distance.d <= orbit.distance.n
    /\ orbit.distance.n <= 500 * orbit.distance.d

\* the first tick delivered a wheel delta with a negative zoom factor and the
\* distance was clamped up to 5
C3_Witness == frame = 0 /\ AfterInput /\ orbit.distance = Rat(5, 1)

(* ---------------------------------------------------------------------- *)
\* C4: -pi/2 <= elevation <= pi/2 in every reachable state.
C4_ElevationClamped == -1570796 <= orbit.elevation /\ orbit.elevation <= 1570796

\* a primary-button drag pushed the elevation past a limit and it was clamped
C4_Witness ==
    /\ AfterInput
    /\ "Left" \in mouse_buttons
    /\ orbit.elevation \in {-1570796, 1570796}

(* ---------------------------------------------------------------------- *)
\* C5: at the end of every tick the stored last position is that tick's current
\* position (None without a move event); a tick without a previous or without
\* a current position leaves azimuth, elevation and pan unchanged whatever
\* buttons are held; with both, the drag delta is applied again.
C5_LastPositionOverwritten ==
    [][CameraInput =>
        /\ last_cursor_position' =
              (IF cursor_moved = <<>> THEN None ELSE Some(LastOf(cursor_moved)))
        /\ (~HasDelta => AnglesAndPanUnchanged)
        /\ (HasDelta /\ "Left" \in mouse_buttons /\ DragDelta.x # 0 =>
              orbit'.azimuth # orbit.azimuth)
        /\ (HasDelta /\ "Middle" \in mouse_buttons /\ DragDelta # [x |-> 0, y |-> 0] =>
              orbit'.pan # orbit.pan)]_vars

\* second tick about to run: the first tick zoomed but had no move event
\* (nothing is stored), a move event is queued and both buttons are held
C5_Witness ==
    /\ frame = 1
    /\ pc = 1
    /\ orbit.distance # Rat(200, 1)
    /\ last_cursor_position = None
    /\ cursor_moved # <<>>
    /\ mouse_buttons = Buttons

(* ---------------------------------------------------------------------- *)
\* C6: in a tick with the middle button held, a previous position p and a
\* current position c, pan' = pan + 0.1 * (c - p), whether or not the primary
\* button is held too.
C6_MiddleDragUsesCurrentMinusPrevious ==
    [][(CameraInput /\ HasDelta /\ "Middle" \in mouse_buttons) =>
        orbit'.pan = [x |-> orbit.pan.x + DragDelta.x,
                      y |-> orbit.pan.y + DragDelta.y]]_vars

(* ---------------------------------------------------------------------- *)
\* C7: with several pointer-move events in one tick the state after the tick is
\* the one the last event alone would have produced.
C7_LastMoveWins ==
    [][(CameraInput /\ Len(cursor_moved) >= 2) =>
        /\ orbit' = InputOrbit(orbit, last_cursor_position, mouse_wheel,
                               <<LastOf(cursor_moved)>>, mouse_buttons)
        /\ last_cursor_position' = Some(LastOf(cursor_moved))]_vars

\* a tick is about to run with two different move events queued, a stored
\* previous position different from both, and both buttons held
C7_Witness ==
    /\ frame >= 1
    /\ Len(cursor_moved) = 2
    /\ cursor_moved[1] # cursor_moved[2]
    /\ last_cursor_position # None
    /\ last_cursor_position[1] \notin {cursor_moved[1], cursor_moved[2]}
    /\ mouse_buttons = Buttons

(* ---------------------------------------------------------------------- *)
\* C8: a tick whose wheel events are all 0 leaves distance unchanged, and a tick
\* whose current position equals the stored previous one leaves azimuth,
\* elevation and pan unchanged whatever buttons are held.
C8_ZeroInputNoOp ==
    [][CameraInput =>
        /\ ((\A i \in 1..Len(mouse_wheel) : mouse_wheel[i] = 0) =>
              orbit'.distance = orbit.distance)
        /\ ((HasDelta /\ DragDelta = [x |-> 0, y |-> 0]) => AnglesAndPanUnchanged)]_vars

\* a tick is about to run with a zero wheel event, a move event to the stored
\* previous position and both buttons held, after earlier zooming
C8_Witness ==
    /\ frame >= 1
    /\ mouse_wheel = <<0>>
    /\ HasDelta
    /\ DragDelta = [x |-> 0, y |-> 0]
    /\ mouse_buttons = Buttons
    /\ orbit.distance # Rat(200, 1)

(* ---------------------------------------------------------------------- *)
\* C9: wheel events change only distance; pan changes only with the middle
\* button held, azimuth and elevation only with the primary button held; a
\* pointer move with no button held changes no field; center stays at the
\* origin; no step other than camera_input changes the orbit state.
C9_FrameConditions ==
    /\ [](orbit.center = [x |-> 0, y |-> 0, z |-> 0])
    /\ [][CameraInput =>
            /\ [orbit' EXCEPT !.distance = orbit.distance] =
                  InputOrbit(orbit, last_cursor_position, <<>>, cursor_moved,
                             mouse_buttons)
            /\ ("Middle" \notin mouse_buttons => orbit'.pan = orbit.pan)
            /\ ("Left" \notin mouse_buttons =>
                  orbit'.azimuth = orbit.azimuth /\ orbit'.elevation = orbit.elevation)
            /\ (mouse_wheel = <<>> => orbit'.distance = orbit.distance)
            /\ (mouse_buttons = {} /\ mouse_wheel = <<>> => orbit' = orbit)]_vars
    /\ [][~CameraInput => orbit' = orbit]_vars

\* a tick with a wheel event and a move event, only the primary button held,
\* after which distance and azimuth differ from the tick's start and pan does not
C9_Witness ==
    /\ frame >= 1
    /\ AfterInput
    /\ mouse_buttons = {"Left"}
    /\ transform.translation.rotated.length # orbit.distance
    /\ transform.translation.rotated.azimuth # orbit.azimuth
    /\ transform.translation.plus.x = orbit.pan.x
    /\ transform.translation.plus.y = orbit.pan.y

(* ---------------------------------------------------------------------- *)
\* C10: at the end of every tick the transform is the one derived from the
\* orbit state as updated by that tick's camera_input, its translation the
\* orbit rotation of (0, 0, distance) plus center plus (pan.x, pan.y, 0);
\* camera_orbit leaves the orbit state as it is.
C10_TransformFollowsInput ==
    /\ []((frame > 0 /\ pc = 1) =>
            /\ transform.translation.rotated =
                  [azimuth |-> orbit.azimuth, elevation |-> orbit.elevation,
                   length |-> orbit.distance]
            /\ transform.translation.plus =
                  [x |-> orbit.center.x + orbit.pan.x,
                   y |-> orbit.center.y + orbit.pan.y,
                   z |-> orbit.center.z]
            /\ transform.looking_at = orbit.center)
    /\ [][CameraOrbit => orbit' = orbit]_vars

\* end of a tick whose input changed distance, azimuth and pan
C10_Witness ==
    /\ frame >= 2
    /\ pc = 1
    /\ orbit.pan.x # 0
    /\ orbit.pan.y # 0
    /\ orbit.distance # Rat(200, 1)
    /\ orbit.azimuth # -785398
    /\ transform.translation.plus.z = 0
====
